---- MODULE Spec2Model ----
(***************************************************************************)
(* Model of the event scheduling and parallel execution subsystem of       *)
(* simula-sim (src/simula-compiler/simula-sim/src/lib.rs):                 *)
(* SimulationEngine (schedule_event, add_model, run, process_event) and    *)
(* parallel::ParallelSimulation (new, run_parallel, aggregate_results).    *)
(*                                                                         *)
(* f64 times are modelled by a few integers and the value NaN.  Every      *)
(* scheduled event carries a ghost field seq (the number of earlier        *)
(* schedule_event calls on its engine) so that two events can be told      *)
(* apart; the code never reads it.                                         *)
(***************************************************************************)
EXTENDS Integers, Sequences, FiniteSets, TLC

\* ---------------------------------------------------------------- bounds
NumWorkers == 2
MaxEvents == 3
MaxRuns == 2
MaxParEvents == 1
MaxParRuns == 1
MaxObs == 2
MaxSeriesLen == 4

\* ---------------------------------------------------------------- domains
\* f64::NAN, kept apart from every number by Lt and PartialCmp
NaN == 999
Times == {-1, 1, 2, NaN}
EndTimes == {1, 3}
EventType == {"ModelUpdate", "DataArrival", "TrainingStep", "Evaluation", "Custom"}
InputKinds == {"TrainingStep"}
ModelNames == {"a"}
ParTimes == {1}
ParEndTimes == {2}
MetricNames == {"loss"}
ObsValues == {5}
AggMetricNames == {"loss", "acc"}
AggValues == {5, 6}
StatValues == {1, 2, 3, 4, 5}
Workers == 1 .. NumWorkers

VARIABLES engines, pc, run_end, run_result, runs, next_seq, dispatched,
          panicked, rp_pc, rp_end, join_idx, rp_result, rp_calls,
          aggregated, spawned, stats

vars == <<engines, pc, run_end, run_result, runs, next_seq, dispatched,
          panicked, rp_pc, rp_end, join_idx, rp_result, rp_calls,
          aggregated, spawned, stats>>

\* ---------------------------------------------------------------- f64
\* f64 `<`: false as soon as one operand is NaN
Lt(a, b) == a # NaN /\ b # NaN /\ a < b

\* f64::partial_cmp: None when one operand is NaN
PartialCmp(a, b) ==
    IF a = NaN \/ b = NaN THEN "None"
    ELSE IF a < b THEN "Less"
    ELSE IF a = b THEN "Equal"
    ELSE "Greater"

\* ---------------------------------------------------------------- engine
\* SimulationEngine::new
NewEngine == [time |-> 0, events |-> << >>, models |-> << >>, metrics |-> << >>]

\* a remove(0) that also drops the element behind the head
RemoveFirstTwo(s) == SubSeq(s, 3, Len(s))

\* Vec::remove(0): the remaining elements, shifted left
RemoveFirst(s) == SubSeq(s, 2, Len(s))

\* slice::sort_by is a stable sort: place e before the first element that
\* compares Greater than e, keeping the relative order of the others.
RECURSIVE InsertBeforeEqual(_, _)
InsertBeforeEqual(s, e) ==
    IF s = << >> THEN <<e>>
    ELSE IF PartialCmp(Head(s).time, e.time) \in {"Greater", "Equal"}
         THEN <<e>> \o s
         ELSE <<Head(s)>> \o InsertBeforeEqual(Tail(s), e)

RECURSIVE InsertStable(_, _)
InsertStable(s, e) ==
    IF s = << >> THEN <<e>>
    ELSE IF PartialCmp(Head(s).time, e.time) = "Greater"
         THEN <<e>> \o s
         ELSE <<Head(s)>> \o InsertStable(Tail(s), e)

RECURSIVE SortBy(_)
SortBy(s) ==
    IF s = << >> THEN << >>
    ELSE InsertStable(SortBy(SubSeq(s, 1, Len(s) - 1)), s[Len(s)])

\* the comparator's unwrap() panics when a comparison meets a NaN; a slice
\* of fewer than two elements is never compared
SortPanics(s) == Len(s) >= 2 /\ \E i \in 1 .. Len(s) : s[i].time = NaN

\* all orders a slice can be left in when the comparator panics mid-sort
Perms(s) ==
    { [i \in 1 .. Len(s) |-> s[f[i]]] :
        f \in { g \in [1 .. Len(s) -> 1 .. Len(s)] :
                  \A i, j \in 1 .. Len(s) : i # j => g[i] # g[j] } }

\* Event { time, event_type, model_id } plus the ghost field seq
Event(t, k, m, n) == [time |-> t, event_type |-> k, model_id |-> m, seq |-> n]

\* AIModel, reduced to its name and one value standing for the rest of it
AIModel(name, v) == [name |-> name, params |-> v]
ModelParams == {1, 2}

\* the four handlers update_model, process_data, train_model and
\* evaluate_model are placeholders in the source (they return Ok(()) and
\* nothing else).  Following the handler contract they are opaque callbacks
\* that either succeed, possibly appending one observation to the metric
\* store, or fail with an error.
HandlerError == [cause |-> "handler"]
HandlerOutcomes ==
    {[ok |-> TRUE, metric |-> "none", obs |-> 0], [ok |-> FALSE, metric |-> "none", obs |-> 0]}
        \cup { [ok |-> TRUE, metric |-> n, obs |-> v] : n \in MetricNames, v \in ObsValues }

\* metrics.entry(name).or_insert_with(Vec::new).push(v)
PushMetric(metrics, name, v) ==
    IF name \in DOMAIN metrics
    THEN [metrics EXCEPT ![name] = Append(@, v)]
    ELSE (name :> <<v>>) @@ metrics

\* process_event: the handler is called only for a registered model and a
\* kind other than Custom; out is the outcome of that handler call
HandlerCalled(eng, event) ==
    event.model_id \in DOMAIN eng.models /\ event.event_type # "Custom"

\* process_event with an `else` branch that reports an unregistered model
ProcessEventOkMissingIsError(eng, event, out) ==
    event.model_id \in DOMAIN eng.models /\ (HandlerCalled(eng, event) => out.ok)

ProcessEventOk(eng, event, out) == HandlerCalled(eng, event) => out.ok

ProcessEvent(eng, event, out) ==
    IF HandlerCalled(eng, event) /\ out.ok /\ out.metric # "none"
    THEN [eng EXCEPT !.metrics = PushMetric(eng.metrics, out.metric, out.obs)]
    ELSE eng

\* the loop condition of run
RunContinues(eng, end_time) == Lt(eng.time, end_time) /\ eng.events # << >>

Ok == [tag |-> "Ok"]
Err(e) == [tag |-> "Err", err |-> e]
NoResult == [tag |-> "None"]

\* no SimulationStatistics has been built
NoStats == [done |-> FALSE, input |-> << >>, metrics |-> << >>, summary |-> << >>]

\* ---------------------------------------------------------------- actions
Init ==
    /\ engines = [w \in Workers |-> NewEngine]
    /\ pc = [w \in Workers |-> "idle"]
    /\ run_end = [w \in Workers |-> 0]
    /\ run_result = [w \in Workers |-> NoResult]
    /\ runs = [w \in Workers |-> 0]
    /\ next_seq = [w \in Workers |-> 0]
    /\ dispatched = [w \in Workers |-> << >>]
    /\ panicked = FALSE
    /\ rp_pc = "idle"
    /\ rp_end = 0
    /\ join_idx = 1
    /\ rp_result = NoResult
    /\ rp_calls = 0
    /\ aggregated = [done |-> FALSE, map |-> << >>, calls |-> 0]
    /\ spawned = [w \in Workers |-> NewEngine]
    /\ stats = NoStats

\* the caller holds the engine: no run of it is in progress and the
\* orchestrator is not inside run_parallel
CallerOwns(w) == ~panicked /\ pc[w] = "idle" /\ rp_pc # "joining"

\* add_model: HashMap::insert, which replaces an entry of the same name
AddModel(w, model) ==
    /\ CallerOwns(w)
    /\ engines' = [engines EXCEPT ![w].models = (model.name :> model) @@ @]
    /\ UNCHANGED <<pc, run_end, run_result, runs, next_seq, dispatched, panicked,
                   rp_pc, rp_end, join_idx, rp_result, rp_calls, aggregated,
                   spawned, stats>>

\* schedule_event: push, then sort_by with partial_cmp(..).unwrap()
ScheduleEvent(w, event) ==
    /\ CallerOwns(w)
    /\ event.seq = next_seq[w]
    /\ next_seq' = [next_seq EXCEPT ![w] = @ + 1]
    /\ LET pushed == Append(engines[w].events, event)
       IN IF SortPanics(pushed)
          THEN /\ \E p \in Perms(pushed) : engines' = [engines EXCEPT ![w].events = p]
               /\ panicked' = TRUE
          ELSE /\ engines' = [engines EXCEPT ![w].events = SortBy(pushed)]
               /\ panicked' = panicked
    /\ UNCHANGED <<pc, run_end, run_result, runs, dispatched,
                   rp_pc, rp_end, join_idx, rp_result, rp_calls, aggregated,
                   spawned, stats>>

\* entry of run(end_time)
StartRun(w, end_time) ==
    /\ pc' = [pc EXCEPT ![w] = "running"]
    /\ run_end' = [run_end EXCEPT ![w] = end_time]
    /\ run_result' = [run_result EXCEPT ![w] = NoResult]
    /\ runs' = [runs EXCEPT ![w] = @ + 1]

RunCall(w, end_time) ==
    /\ CallerOwns(w)
    /\ StartRun(w, end_time)
    /\ UNCHANGED <<engines, next_seq, dispatched, panicked,
                   rp_pc, rp_end, join_idx, rp_result, rp_calls, aggregated,
                   spawned, stats>>

\* RunDispatch with the `?` after process_event dropped: the loop goes on
\* after a failed handler
RunDispatchIgnoringError(w) ==
    /\ ~panicked
    /\ pc[w] = "running"
    /\ RunContinues(engines[w], run_end[w])
    /\ LET event == Head(engines[w].events)
           eng == [engines[w] EXCEPT !.events = RemoveFirst(@), !.time = event.time]
       IN \E out \in HandlerOutcomes :
            /\ HandlerCalled(eng, event) \/ out = [ok |-> TRUE, metric |-> "none", obs |-> 0]
            /\ engines' = [engines EXCEPT ![w] = ProcessEvent(eng, event, out)]
            /\ dispatched' = [dispatched EXCEPT ![w] =
                   Append(@, [event |-> event, run |-> runs[w], end_time |-> run_end[w],
                              clock |-> eng.time, ok |-> ProcessEventOk(eng, event, out),
                              out |-> out])]
    /\ UNCHANGED <<pc, run_result, run_end, runs, next_seq, panicked,
                   rp_pc, rp_end, join_idx, rp_result, rp_calls, aggregated,
                   spawned, stats>>

\* RunDispatch with one clock shared by all engines
RunDispatchSharedClock(w) ==
    /\ ~panicked
    /\ pc[w] = "running"
    /\ RunContinues(engines[w], run_end[w])
    /\ LET event == Head(engines[w].events)
           eng == [engines[w] EXCEPT !.events = RemoveFirst(@), !.time = event.time]
       IN \E out \in HandlerOutcomes :
            /\ HandlerCalled(eng, event) \/ out = [ok |-> TRUE, metric |-> "none", obs |-> 0]
            /\ engines' = [v \in Workers |->
                              IF v = w THEN ProcessEvent(eng, event, out)
                              ELSE [engines[v] EXCEPT !.time = event.time]]
            /\ dispatched' = [dispatched EXCEPT ![w] =
                   Append(@, [event |-> event, run |-> runs[w], end_time |-> run_end[w],
                              clock |-> eng.time, ok |-> ProcessEventOk(eng, event, out),
                              out |-> out])]
            /\ IF ProcessEventOk(eng, event, out)
               THEN UNCHANGED <<pc, run_result>>
               ELSE /\ pc' = [pc EXCEPT ![w] = "idle"]
                    /\ run_result' = [run_result EXCEPT ![w] = Err(HandlerError)]
    /\ UNCHANGED <<run_end, runs, next_seq, panicked,
                   rp_pc, rp_end, join_idx, rp_result, rp_calls, aggregated,
                   spawned, stats>>

\* one iteration of the loop of run: remove(0), set the clock, process_event,
\* and leave with the error when process_event fails
RunDispatch(w) ==
    /\ ~panicked
    /\ pc[w] = "running"
    /\ RunContinues(engines[w], run_end[w])
    /\ LET event == Head(engines[w].events)
           eng == [engines[w] EXCEPT !.events = RemoveFirst(@), !.time = event.time]
       IN \E out \in HandlerOutcomes :
            /\ HandlerCalled(eng, event) \/ out = [ok |-> TRUE, metric |-> "none", obs |-> 0]
            /\ engines' = [engines EXCEPT ![w] = ProcessEvent(eng, event, out)]
            /\ dispatched' = [dispatched EXCEPT ![w] =
                   Append(@, [event |-> event, run |-> runs[w], end_time |-> run_end[w],
                              clock |-> eng.time, ok |-> ProcessEventOk(eng, event, out),
                              out |-> out])]
            /\ IF ProcessEventOk(eng, event, out)
               THEN UNCHANGED <<pc, run_result>>
               ELSE /\ pc' = [pc EXCEPT ![w] = "idle"]
                    /\ run_result' = [run_result EXCEPT ![w] = Err(HandlerError)]
    /\ UNCHANGED <<run_end, runs, next_seq, panicked,
                   rp_pc, rp_end, join_idx, rp_result, rp_calls, aggregated,
                   spawned, stats>>

\* RunReturn that leaves the loop only once the clock has reached end_time,
\* waiting for more events while the queue is empty
RunReturnAtDeadlineOnly(w) ==
    /\ ~panicked
    /\ pc[w] = "running"
    /\ ~Lt(engines[w].time, run_end[w])
    /\ pc' = [pc EXCEPT ![w] = "idle"]
    /\ run_result' = [run_result EXCEPT ![w] = Ok]
    /\ UNCHANGED <<engines, run_end, runs, next_seq, dispatched, panicked,
                   rp_pc, rp_end, join_idx, rp_result, rp_calls, aggregated,
                   spawned, stats>>

\* RunReturn that moves the clock to end_time when the run ends
RunReturnAdvancingClock(w) ==
    /\ ~panicked
    /\ pc[w] = "running"
    /\ ~RunContinues(engines[w], run_end[w])
    /\ pc' = [pc EXCEPT ![w] = "idle"]
    /\ run_result' = [run_result EXCEPT ![w] = Ok]
    /\ engines' = [engines EXCEPT ![w].time = run_end[w]]
    /\ UNCHANGED <<run_end, runs, next_seq, dispatched, panicked,
                   rp_pc, rp_end, join_idx, rp_result, rp_calls, aggregated,
                   spawned, stats>>

\* the loop condition of run is false: Ok(())
RunReturn(w) ==
    /\ ~panicked
    /\ pc[w] = "running"
    /\ ~RunContinues(engines[w], run_end[w])
    /\ pc' = [pc EXCEPT ![w] = "idle"]
    /\ run_result' = [run_result EXCEPT ![w] = Ok]
    /\ UNCHANGED <<engines, run_end, runs, next_seq, dispatched, panicked,
                   rp_pc, rp_end, join_idx, rp_result, rp_calls, aggregated,
                   spawned, stats>>

\* ---------------------------------------------------------------- orchestrator
\* run_parallel: one task per engine is spawned, each running
\* engine.run(end_time); the handles are then awaited in spawn order
RunParallel(end_time) ==
    /\ ~panicked
    /\ rp_pc # "joining"
    /\ \A w \in Workers : pc[w] = "idle"
    /\ pc' = [w \in Workers |-> "running"]
    /\ run_end' = [w \in Workers |-> end_time]
    /\ run_result' = [w \in Workers |-> NoResult]
    /\ runs' = [w \in Workers |-> runs[w] + 1]
    /\ rp_pc' = "joining"
    /\ rp_end' = end_time
    /\ join_idx' = 1
    /\ rp_result' = NoResult
    /\ rp_calls' = rp_calls + 1
    /\ spawned' = engines
    /\ UNCHANGED <<engines, next_seq, dispatched, panicked, aggregated,
                   stats>>

\* handle.await?? on a task that returned Ok(()): go on to the next handle
AwaitOk ==
    /\ rp_pc = "joining"
    /\ join_idx <= NumWorkers
    /\ pc[join_idx] = "idle"
    /\ run_result[join_idx].tag = "Ok"
    /\ join_idx' = join_idx + 1
    /\ UNCHANGED <<engines, pc, run_end, run_result, runs, next_seq, dispatched,
                   panicked, rp_pc, rp_end, rp_result, rp_calls, aggregated,
                   spawned, stats>>

\* handle.await?? on a task that returned Err(e): run_parallel returns
\* Err(e) at once; the handles not yet awaited are dropped, which detaches
\* their tasks and leaves them running
AwaitErr ==
    /\ rp_pc = "joining"
    /\ join_idx <= NumWorkers
    /\ pc[join_idx] = "idle"
    /\ run_result[join_idx].tag = "Err"
    /\ rp_pc' = "returned"
    /\ rp_result' = run_result[join_idx]
    /\ UNCHANGED <<engines, pc, run_end, run_result, runs, next_seq, dispatched,
                   panicked, rp_end, join_idx, rp_calls, aggregated,
                   spawned, stats>>

\* every handle was awaited: Ok(())
ParReturn ==
    /\ rp_pc = "joining"
    /\ join_idx = NumWorkers + 1
    /\ rp_pc' = "returned"
    /\ rp_result' = Ok
    /\ UNCHANGED <<engines, pc, run_end, run_result, runs, next_seq, dispatched,
                   panicked, rp_end, join_idx, rp_calls, aggregated,
                   spawned, stats>>

\* aggregate_results with insert in place of entry(..).extend(..): a later
\* engine's values replace the ones merged so far
RECURSIVE AggregateInsert(_, _)
AggregateInsert(engs, n) ==
    IF n = 0 THEN << >>
    ELSE LET acc == AggregateInsert(engs, n - 1)
             m == engs[n].metrics
             names == DOMAIN acc \cup DOMAIN m
         IN [name \in names |-> IF name \in DOMAIN m THEN m[name] ELSE acc[name]]

\* aggregate_results: for each engine in order, extend the entry of each of
\* its metrics by that engine's values
RECURSIVE Aggregate(_, _)
Aggregate(engs, n) ==
    IF n = 0 THEN << >>
    ELSE LET acc == Aggregate(engs, n - 1)
             m == engs[n].metrics
             names == DOMAIN acc \cup DOMAIN m
         IN [name \in names |->
               (IF name \in DOMAIN acc THEN acc[name] ELSE << >>)
                 \o (IF name \in DOMAIN m THEN m[name] ELSE << >>)]

AggregateResults ==
    /\ ~panicked
    /\ rp_pc # "joining"
    /\ aggregated' = [done |-> TRUE, map |-> Aggregate(engines, NumWorkers),
                       calls |-> rp_calls]
    /\ UNCHANGED <<engines, pc, run_end, run_result, runs, next_seq, dispatched,
                   panicked, rp_pc, rp_end, join_idx, rp_result, rp_calls,
                   spawned, stats>>

\* ---------------------------------------------------------------- specifications
Events(w) == { Event(t, k, m, next_seq[w]) : t \in Times, k \in InputKinds, m \in ModelNames }
ParEvents(w) == { e \in Events(w) : e.time \in ParTimes }
Models == { AIModel(n, v) : n \in ModelNames, v \in ModelParams }
ParModels == { AIModel(n, 1) : n \in ModelNames }

\* one engine used on its own
Next ==
    \/ \E model \in Models : AddModel(1, model)
    \/ \E event \in Events(1) : next_seq[1] < MaxEvents /\ ScheduleEvent(1, event)
    \/ \E end_time \in EndTimes : runs[1] < MaxRuns /\ RunCall(1, end_time)
    \/ RunDispatch(1)
    \/ RunReturn(1)

Spec == Init /\ [][Next]_vars

\* the engines of one ParallelSimulation
ParNext ==
    \/ \E w \in Workers, model \in ParModels : rp_calls = 0 /\ AddModel(w, model)
    \/ \E w \in Workers : \E event \in ParEvents(w) :
          next_seq[w] < MaxParEvents /\ rp_calls = 0 /\ ScheduleEvent(w, event)
    \/ \E end_time \in ParEndTimes : rp_calls < MaxParRuns /\ RunParallel(end_time)
    \/ \E w \in Workers : RunDispatch(w)
    \/ \E w \in Workers : RunReturn(w)
    \/ AwaitOk
    \/ AwaitErr
    \/ ParReturn
    \/ AggregateResults

SpecPar == Init /\ [][ParNext]_vars

\* the non-empty sequences over S of up to n elements
SeqsUpTo(S, n) == UNION { [1 .. k -> S] : k \in 1 .. n }

\* ---------------------------------------------------------------- statistics
\* an f64 result is the pair <<num, den>> standing for num / den; 0 / 0 is
\* NaN.  The square root taken by std_dev is left unevaluated: the pair held
\* by std_dev stands for the variance.
NaNStat == <<0, 0>>
Whole(x) == <<x, 1>>

RECURSIVE SeqSum(_)
SeqSum(q) == IF q = << >> THEN 0 ELSE Head(q) + SeqSum(Tail(q))

Squares(q) == [i \in 1 .. Len(q) |-> q[i] * q[i]]

\* Statistics::mean: NaN for no data
Mean(q) == IF q = << >> THEN NaNStat ELSE <<SeqSum(q), Len(q)>>

\* Statistics::std_dev: the sample variance, NaN for fewer than two values
StdDev(q) ==
    IF Len(q) < 2 THEN NaNStat
    ELSE <<Len(q) * SeqSum(Squares(q)) - SeqSum(q) * SeqSum(q), Len(q) * (Len(q) - 1)>>

\* Statistics::min and Statistics::max: NaN for no data
Min(q) ==
    IF q = << >> THEN NaNStat
    ELSE Whole(CHOOSE x \in { q[i] : i \in 1 .. Len(q) } : \A i \in 1 .. Len(q) : x <= q[i])
Max(q) ==
    IF q = << >> THEN NaNStat
    ELSE Whole(CHOOSE x \in { q[i] : i \in 1 .. Len(q) } : \A i \in 1 .. Len(q) : x >= q[i])

\* the value of 0-based rank r in q, by selection
Select(q, r) ==
    CHOOSE x \in { q[i] : i \in 1 .. Len(q) } :
        /\ Cardinality({ i \in 1 .. Len(q) : q[i] < x }) <= r
        /\ r < Cardinality({ i \in 1 .. Len(q) : q[i] <= x })

\* a median that takes the upper central value of an even-length series
MedianUpper(q) ==
    IF q = << >> THEN NaNStat ELSE Whole(Select(q, Len(q) \div 2))

\* median: NaN for no data, the value of rank len/2 for an odd length, the
\* mean of the values of ranks len/2 - 1 and len/2 for an even length
Median(q) ==
    IF q = << >> THEN NaNStat
    ELSE LET k == Len(q) \div 2
         IN IF Len(q) % 2 # 0 THEN Whole(Select(q, k))
            ELSE <<Select(q, k - 1) + Select(q, k), 2>>

MetricSummary(q) ==
    [mean |-> Mean(q), std_dev |-> StdDev(q), min |-> Min(q), max |-> Max(q),
     median |-> Median(q)]

\* calculate_summary: one MetricSummary per metric of the map
Summary(metrics) == [name \in DOMAIN metrics |-> MetricSummary(metrics[name])]

CalculateSummary ==
    /\ ~stats.done
    /\ stats' = [stats EXCEPT !.done = TRUE, !.summary = Summary(stats.metrics)]
    /\ UNCHANGED <<engines, pc, run_end, run_result, runs, next_seq, dispatched,
                   panicked, rp_pc, rp_end, join_idx, rp_result, rp_calls,
                   aggregated, spawned>>

\* SimulationStatistics::new on any metric map: a series of up to
\* MaxSeriesLen values, alone or next to a second, short series
Series == {<< >>} \cup SeqsUpTo(StatValues, MaxSeriesLen)
StatInputs ==
    { ("loss" :> q) : q \in Series }
        \cup { ("loss" :> q) @@ ("acc" :> r) : q \in Series, r \in {<< >>, <<1>>} }

StatsInit ==
    /\ engines = [w \in Workers |-> NewEngine]
    /\ pc = [w \in Workers |-> "idle"]
    /\ run_end = [w \in Workers |-> 0]
    /\ run_result = [w \in Workers |-> NoResult]
    /\ runs = [w \in Workers |-> 0]
    /\ next_seq = [w \in Workers |-> 0]
    /\ dispatched = [w \in Workers |-> << >>]
    /\ panicked = FALSE
    /\ rp_pc = "idle"
    /\ rp_end = 0
    /\ join_idx = 1
    /\ rp_result = NoResult
    /\ rp_calls = 0
    /\ aggregated = [done |-> FALSE, map |-> << >>, calls |-> 0]
    /\ spawned = [w \in Workers |-> NewEngine]
    /\ \E m \in StatInputs :
          stats = [done |-> FALSE, input |-> m, metrics |-> m, summary |-> << >>]

StatsNext == CalculateSummary

SpecStats == StatsInit /\ [][StatsNext]_vars

\* the runtime keeps polling every spawned task and the task awaiting the
\* handles
FairSpecPar ==
    /\ SpecPar
    /\ \A w \in Workers : WF_vars(RunDispatch(w)) /\ WF_vars(RunReturn(w))
    /\ WF_vars(AwaitOk)
    /\ WF_vars(AwaitErr)
    /\ WF_vars(ParReturn)

\* aggregate_results applied to engines whose runs have left any metric
\* stores: a metric that is present holds at least one observation
MetricStores ==
    { m \in UNION { [names -> SeqsUpTo(AggValues, MaxObs)] : names \in SUBSET AggMetricNames } :
          "acc" \in DOMAIN m => \A i \in 1 .. Len(m["acc"]) : m["acc"][i] \in ObsValues }

AggInit ==
    /\ engines \in [Workers -> { [NewEngine EXCEPT !.metrics = m] : m \in MetricStores }]
    /\ pc = [w \in Workers |-> "idle"]
    /\ run_end = [w \in Workers |-> 0]
    /\ run_result = [w \in Workers |-> NoResult]
    /\ runs = [w \in Workers |-> 0]
    /\ next_seq = [w \in Workers |-> 0]
    /\ dispatched = [w \in Workers |-> << >>]
    /\ panicked = FALSE
    /\ rp_pc = "idle"
    /\ rp_end = 0
    /\ join_idx = 1
    /\ rp_result = NoResult
    /\ rp_calls = 0
    /\ aggregated = [done |-> FALSE, map |-> << >>, calls |-> 0]
    /\ spawned = [w \in Workers |-> NewEngine]
    /\ stats = NoStats

AggNext == AggregateResults

SpecAgg == AggInit /\ [][AggNext]_vars

\* ---------------------------------------------------------------- properties
\* f64 `==` and `<=`: false as soon as one operand is NaN
Eq(a, b) == a # NaN /\ b # NaN /\ a = b
Le(a, b) == a # NaN /\ b # NaN /\ a <= b

\* a time that schedule_event has to reject whatever the engine's state
Malformed(t) == t = NaN \/ Lt(t, 0)

Log == dispatched[1]
Pending == engines[1].events

\* C1 (deadline respect): no event dispatched by run(end_time) has a time
\* strictly greater than end_time.
C1_DeadlineRespect ==
    \A i \in 1 .. Len(Log) : ~Lt(Log[i].end_time, Log[i].event.time)

\* C2 (ordering): if event A is dispatched before event B by one engine,
\* then B's time is not strictly less than A's.
C2_Ordering ==
    \A i, j \in 1 .. Len(Log) : i < j => ~Lt(Log[j].event.time, Log[i].event.time)

\* C3 (FIFO tie-break): of two events of equal time scheduled on one
\* engine, the one scheduled first is dispatched first: the later one is
\* never dispatched ahead of it, neither while the earlier one is still
\* pending nor earlier in the dispatch order.
C3_FifoTieBreak ==
    /\ \A i, j \in 1 .. Len(Log) :
          (i < j /\ Eq(Log[i].event.time, Log[j].event.time))
             => Log[i].event.seq < Log[j].event.seq
    /\ \A i \in 1 .. Len(Log), k \in 1 .. Len(Pending) :
          Eq(Log[i].event.time, Pending[k].time) => Log[i].event.seq < Pending[k].seq

\* two events of equal time were dispatched, another event having been
\* scheduled between them
C3_Witness ==
    \E i, j \in 1 .. Len(Log) :
        /\ i < j
        /\ Eq(Log[i].event.time, Log[j].event.time)
        /\ ~Malformed(Log[i].event.time)
        /\ Log[j].event.seq >= Log[i].event.seq + 2

\* C4 (clock monotonicity): no step of an engine decreases its clock.
C4_ClockMonotonic == [][~Lt(engines'[1].time, engines[1].time)]_vars

\* C5 (rejection of malformed events): a schedule_event call with a NaN or
\* negative time leaves the pending events unchanged.
C5_RejectMalformed ==
    [][\A event \in Events(1) :
          (Malformed(event.time) /\ ScheduleEvent(1, event)) => Pending' = Pending]_vars

\* C6 (rejection of back-dated events): a schedule_event call with a
\* (finite, non-negative) time earlier than the engine's clock leaves the
\* engine unchanged.
C6_RejectBackDated ==
    [][\A event \in Events(1) :
          (~Malformed(event.time) /\ Lt(event.time, engines[1].time)
              /\ ScheduleEvent(1, event))
             => engines'[1] = engines[1]]_vars

NumReported(result) == IF result.tag = "Err" THEN 1 ELSE 0
FailedWorkers == { w \in Workers : run_result[w].tag = "Err" }
AllTerminated == \A w \in Workers : pc[w] = "idle"

ContainsSeq(big, small) ==
    \E i \in 0 .. Len(big) - Len(small) : SubSeq(big, i + 1, i + Len(small)) = small

MetricsPresent(w, merged) ==
    \A name \in DOMAIN engines[w].metrics :
        name \in DOMAIN merged /\ ContainsSeq(merged[name], engines[w].metrics[name])

Identifies(result, event) ==
    /\ result.tag = "Err"
    /\ {"kind", "model_id", "time"} \subseteq DOMAIN result.err
    /\ result.err.kind = event.event_type
    /\ result.err.model_id = event.model_id
    /\ result.err.time = event.time

HeadUnregistered ==
    /\ pc[1] = "running"
    /\ RunContinues(engines[1], run_end[1])
    /\ Head(Pending).model_id \notin DOMAIN engines[1].models

\* C12 (skip on missing model): dispatching an event whose model is not
\* registered does not end the run, leaves models and metrics as they are,
\* sets the clock to the event's time and removes just that event, so that
\* the run goes on with the next one.
C12_SkipOnMissingModel ==
    [][(HeadUnregistered /\ dispatched'[1] # dispatched[1])
          => /\ pc'[1] = "running"
             /\ run_result'[1] = run_result[1]
             /\ engines'[1].models = engines[1].models
             /\ engines'[1].metrics = engines[1].metrics
             /\ engines'[1].time = Head(Pending).time
             /\ engines'[1].events = Tail(Pending)
             /\ dispatched'[1][Len(dispatched'[1])].ok]_vars

\* an event of a handled kind whose model is not registered was dispatched
\* and the same run dispatched the next event after it
C12_Witness ==
    \E i, j \in 1 .. Len(Log) :
        /\ j = i + 1
        /\ Log[j].run = Log[i].run
        /\ Log[i].event.event_type # "Custom"
        /\ ~Malformed(Log[i].event.time)
        /\ Log[i].event.model_id \notin DOMAIN engines[1].models

\* C13 (duplicate model rejection): add_model of a name that is already
\* registered leaves the registered model as it is.
C13_RejectDuplicateModel ==
    [][\A model \in Models :
          (model.name \in DOMAIN engines[1].models /\ AddModel(1, model))
             => engines'[1].models = engines[1].models]_vars

\* the number of occurrences of v in seq
Count(seq, v) == Cardinality({ i \in 1 .. Len(seq) : seq[i] = v })

RECURSIVE SumOver(_, _)
SumOver(f, n) == IF n = 0 THEN 0 ELSE f[n] + SumOver(f, n - 1)

MetricOf(eng, name) == IF name \in DOMAIN eng.metrics THEN eng.metrics[name] ELSE << >>

\* merged holds, for exactly the metric names of engs, as many values as the
\* engines together and each value as often as the engines together
Complete(merged, engs) ==
    /\ DOMAIN merged = UNION { DOMAIN engs[w].metrics : w \in Workers }
    /\ \A name \in DOMAIN merged :
          /\ Len(merged[name])
                = SumOver([w \in Workers |-> Len(MetricOf(engs[w], name))], NumWorkers)
          /\ \A v \in ObsValues \cup AggValues :
                Count(merged[name], v)
                   = SumOver([w \in Workers |-> Count(MetricOf(engs[w], name), v)], NumWorkers)
          /\ \A i \in 1 .. Len(merged[name]) : merged[name][i] \in ObsValues \cup AggValues

\* C14 (aggregation completeness): what aggregate_results returns has a key
\* for exactly the metric names some worker holds and, under each, the
\* workers' observations without loss or duplication.
C14_AggregationComplete ==
    [][AggregateResults => Complete(aggregated'.map, engines)]_vars

\* a merged map was returned in which one metric holds the observations of
\* two workers, of different values, and another metric those of one worker
C14_Witness ==
    /\ aggregated.done
    /\ \A w \in {1, 2} : Len(MetricOf(engines[w], "loss")) = MaxObs
    /\ Count(aggregated.map["loss"], 5) > 0
    /\ Count(aggregated.map["loss"], 6) > 0
    /\ MetricOf(engines[1], "acc") # << >>
    /\ MetricOf(engines[2], "acc") = << >>

RunLog(w) == SelectSeq(dispatched[w], LAMBDA d : d.run = runs[w])

\* the engine that run(end_time), executed alone from eng, is left in after
\* the iterations whose events and handler outcomes are entries
RECURSIVE Replay(_, _, _)
Replay(eng, end_time, entries) ==
    IF entries = << >> THEN eng
    ELSE LET event == Head(eng.events)
             popped == [eng EXCEPT !.events = RemoveFirst(@), !.time = event.time]
         IN Replay(ProcessEvent(popped, event, Head(entries).out), end_time, Tail(entries))

\* entries is what run(end_time), executed alone from eng, dispatches: each
\* iteration is entered with the loop condition true and takes the head
RECURSIVE ReplayValid(_, _, _)
ReplayValid(eng, end_time, entries) ==
    \/ entries = << >>
    \/ /\ RunContinues(eng, end_time)
       /\ Head(entries).event = Head(eng.events)
       /\ Head(entries).ok \/ Len(entries) = 1
       /\ LET event == Head(eng.events)
              popped == [eng EXCEPT !.events = RemoveFirst(@), !.time = event.time]
          IN ReplayValid(ProcessEvent(popped, event, Head(entries).out), end_time,
                         Tail(entries))

NoData == [no_data |-> TRUE]

IsNumeric(x) == x[2] # 0
NumericSummary(m) ==
    IsNumeric(m.mean) /\ IsNumeric(m.min) /\ IsNumeric(m.max) /\ IsNumeric(m.median)

\* C18 (empty-series statistics): calculate_summary reports the distinct
\* "no data" outcome for a metric whose series is empty and a numeric
\* summary for every other metric.
C18_EmptySeriesNoData ==
    stats.done =>
        \A name \in DOMAIN stats.input :
            IF stats.input[name] = << >>
            THEN stats.summary[name] = NoData
            ELSE NumericSummary(stats.summary[name])

\* q sorted on a copy, by insertion
RECURSIVE SortedCopy(_)
SortedCopy(q) ==
    IF q = << >> THEN << >>
    ELSE LET rest == SortedCopy(Tail(q))
             below == SelectSeq(rest, LAMBDA x : x <= Head(q))
             above == SelectSeq(rest, LAMBDA x : x > Head(q))
         IN below \o <<Head(q)>> \o above

RatEq(a, b) == a[2] # 0 /\ b[2] # 0 /\ a[1] * b[2] = b[1] * a[2]

\* the median policy: the middle sorted value, or the average of the two
\* central sorted values
PolicyMedian(q) ==
    LET sorted == SortedCopy(q)
        n == Len(q)
    IN IF n % 2 = 1 THEN <<sorted[(n + 1) \div 2], 1>>
       ELSE <<sorted[n \div 2] + sorted[n \div 2 + 1], 2>>

\* C19 (median policy): for every non-empty series the median reported by
\* calculate_summary is the policy median, it is the same for every order
\* of the series, and the series held by the statistics object is the one
\* it was given.
C19_MedianPolicy ==
    stats.done =>
        /\ stats.metrics = stats.input
        /\ \A name \in DOMAIN stats.input :
              stats.input[name] # << >> =>
                 /\ RatEq(stats.summary[name].median, PolicyMedian(stats.input[name]))
                 /\ \A p \in Perms(stats.input[name]) :
                       RatEq(Median(p), stats.summary[name].median)

\* the summary of the unsorted series 4, 1, 3, 2 was computed: median 2.5
C19_Witness ==
    /\ stats.done
    /\ "loss" \in DOMAIN stats.input
    /\ stats.input["loss"] = <<4, 1, 3, 2>>
    /\ stats.summary["loss"].median = <<5, 2>>

\* C20 (clock changes only on dispatch): a step that dispatches no event
\* (add_model, schedule_event, the entry of run, the return of run) leaves
\* the clock as it is; the entry and the return of run leave the whole
\* engine as it is; and a step that dispatches an event leaves the clock at
\* exactly that event's time.
C20_ClockOnlyOnDispatch ==
    [][/\ dispatched'[1] = dispatched[1] => engines'[1].time = engines[1].time
       /\ (dispatched'[1] = dispatched[1] /\ (pc[1] = "running" \/ pc'[1] = "running"))
             => engines'[1] = engines[1]
       /\ dispatched'[1] # dispatched[1]
             => /\ engines'[1].time = Head(Pending).time
                /\ dispatched'[1][Len(dispatched'[1])].event = Head(Pending)]_vars

\* after an earlier dispatch had moved the clock, a run returned without
\* dispatching anything although an event was pending
C20_Witness ==
    /\ pc[1] = "idle"
    /\ run_result[1] = Ok
    /\ runs[1] = 2
    /\ Pending # << >>
    /\ Log # << >>
    /\ \A i \in 1 .. Len(Log) : Log[i].run = 1
    /\ engines[1].time = Log[Len(Log)].event.time
    /\ ~Malformed(engines[1].time)

\* C21 (run completeness): when a call of run returns Ok, no pending event
\* has a time strictly below that call's end_time.
C21_RunCompleteness ==
    [][(pc[1] = "running" /\ pc'[1] = "idle" /\ run_result'[1] = Ok)
          => \A i \in 1 .. Len(engines'[1].events) :
                 ~Lt(engines'[1].events[i].time, run_end[1])]_vars

\* the number of pending events and of dispatches that carry sequence number n
PendingCount(n) == Cardinality({ i \in 1 .. Len(Pending) : Pending[i].seq = n })
DispatchCount(n) == Cardinality({ i \in 1 .. Len(Log) : Log[i].event.seq = n })

\* C22 (event conservation): every event that schedule_event has taken is
\* either pending once and never dispatched, or dispatched exactly once and
\* no longer pending; nothing else is pending or dispatched; and the pending
\* events plus the dispatches number the schedule_event calls made.
C22_EventConservation ==
    /\ \A n \in 0 .. next_seq[1] - 1 : PendingCount(n) + DispatchCount(n) = 1
    /\ \A i \in 1 .. Len(Pending) : Pending[i].seq \in 0 .. next_seq[1] - 1
    /\ \A i \in 1 .. Len(Log) : Log[i].event.seq \in 0 .. next_seq[1] - 1
    /\ Len(Pending) + Len(Log) = next_seq[1]

\* three events were scheduled around two runs; two of them have been
\* dispatched, one by a failing handler, and one is still pending
C22_Witness ==
    /\ ~panicked
    /\ pc[1] = "idle"
    /\ runs[1] = 2
    /\ next_seq[1] = 3
    /\ Len(Log) = 2
    /\ Len(Pending) = 1
    /\ \E i \in 1 .. Len(Log) : ~Log[i].ok
    /\ Log[1].run # Log[2].run

====
